---------------------------- MODULE Spec2Model ----------------------------
(***************************************************************************)
(* Model of the Research-App dashboard (REHXZ/Research-App):               *)
(*   src/utils/data_processing.py  filter_data_multi and                   *)
(*                                 Predict_Best_Tolerance_based_on_Material*)
(*   src/app.py                    main (one rerun pass of the dashboard)  *)
(*                                                                         *)
(* Numbers are binary floating point values with a SigBits-bit significand *)
(* and round-to-nearest-even, the arithmetic of numpy.float64 scaled down; *)
(* the exponent is unbounded (the inputs stay far from overflow and        *)
(* underflow).  A division by zero follows numpy: it yields an infinity or *)
(* a not-a-number and raises nothing.                                      *)
(***************************************************************************)
EXTENDS Integers, Sequences, FiniteSets, TLC

(***************************************************************************)
(* Bounds of the model.                                                    *)
(***************************************************************************)
SigBits == 4
MaxRows == 2
MaxCalls == 3

(***************************************************************************)
(* Floating point values.                                                  *)
(***************************************************************************)
RECURSIVE Pow2(_)
Pow2(n) == IF n <= 0 THEN 1 ELSE 2 * Pow2(n - 1)

RECURSIVE BitLen(_)
BitLen(a) == IF a <= 0 THEN 0 ELSE 1 + BitLen(a \div 2)

Abs(x) == IF x < 0 THEN -x ELSE x

Fin(m, e) == [k |-> "fin", m |-> m, e |-> e]
Zero == Fin(0, 0)
PosInf == [k |-> "inf", m |-> 0, e |-> 0]
NegInf == [k |-> "ninf", m |-> 0, e |-> 0]
NaN == [k |-> "nan", m |-> 0, e |-> 0]

IsFin(x) == x.k = "fin"
IsNaN(x) == x.k = "nan"
IsInf(x) == x.k \in {"inf", "ninf"}
IsZero(x) == IsFin(x) /\ x.m = 0
Sign(x) == CASE x.k = "inf" -> 1
             [] x.k = "ninf" -> -1
             [] x.k = "nan" -> 0
             [] OTHER -> IF x.m > 0 THEN 1 ELSE IF x.m < 0 THEN -1 ELSE 0
SignedInf(s) == IF s < 0 THEN NegInf ELSE PosInf

\* The canonical form of m * 2^e: m odd, or zero.
RECURSIVE Strip(_, _)
Strip(m, e) == IF m = 0 THEN Zero
               ELSE IF m % 2 = 0 THEN Strip(m \div 2, e + 1)
               ELSE Fin(m, e)

\* m * 2^e rounded to SigBits significant bits, ties to even.
Round(m, e) ==
    LET a == Abs(m)
        s == IF m < 0 THEN -1 ELSE 1
        sh == BitLen(a) - SigBits
    IN  IF sh <= 0 THEN Strip(m, e)
        ELSE LET q == a \div Pow2(sh)
                 r == a % Pow2(sh)
                 half == Pow2(sh - 1)
                 up == r > half \/ (r = half /\ q % 2 = 1)
             IN  Strip(s * (IF up THEN q + 1 ELSE q), e + sh)

\* A Python literal n/d (d > 0) as the nearest float.
RECURSIVE ScaleUp(_, _, _)
ScaleUp(n, d, s) == IF n >= d * Pow2(SigBits + 1) THEN s ELSE ScaleUp(2 * n, d, s + 1)

RoundRat(n, d) ==
    IF n = 0 THEN Zero
    ELSE LET a == Abs(n)
             s == ScaleUp(a, d, 0)
             q == (a * Pow2(s)) \div d
             st == IF (a * Pow2(s)) % d = 0 THEN 0 ELSE 1
         IN  Round((IF n < 0 THEN -1 ELSE 1) * (2 * q + st), -s - 1)

Lit(n, d) == RoundRat(n, d)
FInt(n) == Round(n, 0)

\* x < y on finite values, exactly.
FinLess(x, y) ==
    LET lo == IF x.e < y.e THEN x.e ELSE y.e
        mx == BitLen(Abs(x.m)) + x.e
        my == BitLen(Abs(y.m)) + y.e
    IN  IF Sign(x) # Sign(y) THEN Sign(x) < Sign(y)
        ELSE IF Sign(x) = 0 THEN FALSE
        ELSE IF mx # my THEN (IF Sign(x) > 0 THEN mx < my ELSE mx > my)
        ELSE x.m * Pow2(x.e - lo) < y.m * Pow2(y.e - lo)

\* Python's x < y, x > y, x == y: every comparison with a NaN is false.
FLt(x, y) ==
    CASE IsNaN(x) \/ IsNaN(y) -> FALSE
      [] x.k = "ninf" -> y.k # "ninf"
      [] x.k = "inf" -> FALSE
      [] y.k = "ninf" -> FALSE
      [] y.k = "inf" -> TRUE
      [] OTHER -> FinLess(x, y)
FGt(x, y) == FLt(y, x)
FEq(x, y) == ~IsNaN(x) /\ ~IsNaN(y) /\ x = y

FNeg(x) == CASE x.k = "inf" -> NegInf
             [] x.k = "ninf" -> PosInf
             [] x.k = "nan" -> NaN
             [] OTHER -> Fin(-x.m, x.e)

\* x + y
FAdd(x, y) ==
    CASE IsNaN(x) \/ IsNaN(y) -> NaN
      [] IsInf(x) /\ IsInf(y) -> IF x = y THEN x ELSE NaN
      [] IsInf(x) -> x
      [] IsInf(y) -> y
      [] x.m = 0 -> y
      [] y.m = 0 -> x
      [] x.e - y.e > 2 * SigBits -> x
      [] y.e - x.e > 2 * SigBits -> y
      [] OTHER -> LET lo == IF x.e < y.e THEN x.e ELSE y.e
                  IN  Round(x.m * Pow2(x.e - lo) + y.m * Pow2(y.e - lo), lo)
FSub(x, y) == FAdd(x, FNeg(y))

\* x * y
FMul(x, y) ==
    CASE IsNaN(x) \/ IsNaN(y) -> NaN
      [] IsInf(x) \/ IsInf(y) ->
            IF Sign(x) * Sign(y) = 0 THEN NaN ELSE SignedInf(Sign(x) * Sign(y))
      [] OTHER -> Round(x.m * y.m, x.e + y.e)

\* x / y as numpy's true_divide computes it: a zero divisor gives an infinity
\* (or NaN for 0/0) and a RuntimeWarning, never an exception.  The zeros that
\* reach a divisor in this program are positive (6 * std_dev, a number_input
\* bounded below by 0.0).
FDiv(x, y) ==
    CASE IsNaN(x) \/ IsNaN(y) -> NaN
      [] IsInf(x) /\ IsInf(y) -> NaN
      [] IsInf(x) -> SignedInf(Sign(x) * (IF Sign(y) < 0 THEN -1 ELSE 1))
      [] IsInf(y) -> Zero
      [] y.m = 0 -> IF x.m = 0 THEN NaN ELSE SignedInf(Sign(x))
      [] x.m = 0 -> Zero
      [] OTHER -> LET a == Abs(x.m)
                      d == Abs(y.m)
                      s == ScaleUp(a, d, 0)
                      q == (a * Pow2(s)) \div d
                      st == IF (a * Pow2(s)) % d = 0 THEN 0 ELSE 1
                  IN  Round(Sign(x) * Sign(y) * (2 * q + st), x.e - y.e - s - 1)

\* The integer square root, by bisection.
RECURSIVE ISqrtIn(_, _, _)
ISqrtIn(n, lo, hi) ==
    IF lo >= hi THEN lo
    ELSE LET mid == (lo + hi + 1) \div 2
         IN  IF mid * mid <= n THEN ISqrtIn(n, mid, hi) ELSE ISqrtIn(n, lo, mid - 1)
ISqrt(n) == ISqrtIn(n, 0, Pow2(SigBits + 3))

RECURSIVE ScaleUp4(_, _)
ScaleUp4(n, s) == IF n >= Pow2(2 * SigBits + 2) THEN s ELSE ScaleUp4(4 * n, s + 1)

\* numpy.sqrt, correctly rounded.
FSqrt(x) ==
    CASE IsNaN(x) -> NaN
      [] x.k = "inf" -> PosInf
      [] x.k = "ninf" -> NaN
      [] x.m = 0 -> Zero
      [] x.m < 0 -> NaN
      [] OTHER -> LET m == IF x.e % 2 = 0 THEN x.m ELSE 2 * x.m
                      e == IF x.e % 2 = 0 THEN x.e ELSE x.e - 1
                      s == ScaleUp4(m, 0)
                      n == m * Pow2(2 * s)
                      r == ISqrt(n)
                      st == IF r * r = n THEN 0 ELSE 1
                  IN  Round(2 * r + st, (e \div 2) - s - 1)

(***************************************************************************)
(* Tables (pandas DataFrames).  A table has the set of its columns, the    *)
(* set of its columns that hold text instead of numbers (dtype object),    *)
(* and its rows in order.                                                  *)
(***************************************************************************)
CategoryCols == {"MachineId", "MaterialDesc", "DimensionDesc"}
NumericCols == {"MeasValue", "LSL", "USL", "Gage_RR"}
OptionalCols == {"Cp", "Cpk"}
AllCols == CategoryCols \cup NumericCols \cup OptionalCols

\* Python's None, and a text cell, where a number is expected.
None == [k |-> "none", m |-> 0, e |-> 0]
Text == [k |-> "str", m |-> 0, e |-> 0]

\* df[c][i]
Cell(df, i, c) == IF c \in df.text THEN Text ELSE df.rows[i][c]

\* len(df)
DfLen(df) == Len(df.rows)

\* Series.sum(): numpy adds the few values of these tables left to right.
RECURSIVE SumTo(_, _, _)
SumTo(df, c, n) == IF n = 0 THEN Zero ELSE FAdd(SumTo(df, c, n - 1), Cell(df, n, c))

\* df[c].mean(): sum / count.
SeriesMean(df, c) == FDiv(SumTo(df, c, DfLen(df)), FInt(DfLen(df)))

RECURSIVE SqrSumTo(_, _, _, _)
SqrSumTo(df, c, avg, n) ==
    IF n = 0 THEN Zero
    ELSE LET d == FSub(avg, Cell(df, n, c))
         IN  FAdd(SqrSumTo(df, c, avg, n - 1), FMul(d, d))

\* df[c].std(): the sample standard deviation (ddof = 1); NaN when the
\* table has a single row (count <= ddof).
SeriesStd(df, c) ==
    IF DfLen(df) <= 1 THEN NaN
    ELSE FSqrt(FDiv(SqrSumTo(df, c, SeriesMean(df, c), DfLen(df)),
                    FInt(DfLen(df) - 1)))

\* df[c].unique()[0]: the first observed value of a column that has one.
Unique0(df, c) == Cell(df, 1, c)

\* df[c].unique().tolist(): the values a multiselect offers.
Options(df, c) == {df.rows[i][c] : i \in 1..DfLen(df)}

(***************************************************************************)
(* filter_data_multi.  The dictionary of filters is the sequence of its    *)
(* items, <<column, values>>, in insertion order; values is the set of the *)
(* selected values.                                                        *)
(***************************************************************************)
\* df[df[column].isin(values)]: a new table of the rows that match.
IsIn(df, column, values) ==
    [df EXCEPT !.rows = SelectSeq(@, LAMBDA r : r[column] \in values)]

\* Lines 50-52 from item i on, without the test "if values".
RECURSIVE FilterUnguardedFrom(_, _, _)
FilterUnguardedFrom(filtered_df, filters_dict, i) ==
    IF i > Len(filters_dict) THEN filtered_df
    ELSE FilterUnguardedFrom(IsIn(filtered_df, filters_dict[i][1], filters_dict[i][2]),
                             filters_dict, i + 1)

\* Lines 50-52 from item i on: a filter is applied only if values are selected.
RECURSIVE FilterFrom(_, _, _)
FilterFrom(filtered_df, filters_dict, i) ==
    IF i > Len(filters_dict) THEN filtered_df
    ELSE LET column == filters_dict[i][1]
             values == filters_dict[i][2]
         IN  FilterFrom(IF values # {} THEN IsIn(filtered_df, column, values)
                        ELSE filtered_df,
                        filters_dict, i + 1)

\* Lines 48-54: the filtered copy of df.
filter_data_multi(df, filters_dict) == FilterFrom(df, filters_dict, 1)

\* Line 52 raises KeyError for a column the table lacks.
FilterRaises(df, filters_dict) ==
    \E i \in 1..Len(filters_dict) :
        filters_dict[i][2] # {} /\ filters_dict[i][1] \notin df.cols

\* filters[column] = values on the dictionary.
DictSet(filters, column, values) ==
    IF \E i \in 1..Len(filters) : filters[i][1] = column
    THEN [i \in 1..Len(filters) |->
            IF filters[i][1] = column THEN <<column, values>> ELSE filters[i]]
    ELSE Append(filters, <<column, values>>)

(***************************************************************************)
(* Predict_Best_Tolerance_based_on_Material, step by step.  A frame holds  *)
(* the locals of one call.                                                 *)
(***************************************************************************)
\* An exception: its class and the message the except clause reports,
\* f"Error in prediction: {str(e)}".
Exc(type, msg) == [type |-> type, msg |-> msg]
NoExc == Exc("none", "")
KeyError == [c \in AllCols |->
    CASE c = "MeasValue" -> Exc("KeyError", "Error in prediction: 'MeasValue'")
      [] c = "LSL" -> Exc("KeyError", "Error in prediction: 'LSL'")
      [] c = "USL" -> Exc("KeyError", "Error in prediction: 'USL'")
      [] c = "Gage_RR" -> Exc("KeyError", "Error in prediction: 'Gage_RR'")
      [] OTHER -> Exc("KeyError", "Error in prediction: key")]
TypeError == Exc("TypeError", "Error in prediction: unsupported operand type(s)")
IndexError ==
    Exc("IndexError",
        "Error in prediction: index 0 is out of bounds for axis 0 with size 0")

EmptyFrame == [std_dev |-> None, mean |-> None, lsl |-> None, usl |-> None,
               current_tolerance |-> None, current_gage_rr |-> None,
               current_cp |-> None, current_cpk |-> None,
               scenarios |-> << >>, exc |-> NoExc]

PyMax(a, b) == IF FGt(b, a) THEN b ELSE a

\* Python's min(a, b): b when b < a, else a.
PyMin(a, b) == IF FLt(b, a) THEN b ELSE a

\* Lines 118-120: width / (k * std_dev) if std_dev > 0 else float('inf').
CapabilityUnguarded(width, k, std_dev) == FDiv(width, FMul(FInt(k), std_dev))

Capability(width, k, std_dev) ==
    IF FGt(std_dev, Zero) THEN FDiv(width, FMul(FInt(k), std_dev)) ELSE PosInf

\* Lines 106-121: the statistics and the current capability.  The result is
\* the frame after the lines, or the frame with the exception they raise.
Statistics(f, df) ==
    LET std_dev == SeriesStd(df, "MeasValue")
        mean == SeriesMean(df, "MeasValue")
        lsl == Unique0(df, "LSL")
        usl == Unique0(df, "USL")
        current_tolerance == FSub(usl, lsl)
        current_gage_rr == Unique0(df, "Gage_RR")
        current_cp == Capability(current_tolerance, 6, std_dev)
        current_cpk_lower == Capability(FSub(mean, lsl), 3, std_dev)
        current_cpk_upper == Capability(FSub(usl, mean), 3, std_dev)
    IN  CASE "MeasValue" \notin df.cols -> [f EXCEPT !.exc = KeyError["MeasValue"]]
          [] "MeasValue" \in df.text -> [f EXCEPT !.exc = TypeError]
          [] "LSL" \notin df.cols ->
                [f EXCEPT !.exc = KeyError["LSL"], !.std_dev = std_dev, !.mean = mean]
          [] DfLen(df) = 0 ->
                [f EXCEPT !.exc = IndexError, !.std_dev = std_dev, !.mean = mean]
          [] "USL" \notin df.cols ->
                [f EXCEPT !.exc = KeyError["USL"], !.std_dev = std_dev, !.mean = mean,
                          !.lsl = lsl]
          [] "LSL" \in df.text \/ "USL" \in df.text ->
                [f EXCEPT !.exc = TypeError, !.std_dev = std_dev, !.mean = mean,
                          !.lsl = lsl, !.usl = usl]
          [] "Gage_RR" \notin df.cols ->
                [f EXCEPT !.exc = KeyError["Gage_RR"], !.std_dev = std_dev,
                          !.mean = mean, !.lsl = lsl, !.usl = usl,
                          !.current_tolerance = current_tolerance]
          [] OTHER ->
                [f EXCEPT !.std_dev = std_dev, !.mean = mean, !.lsl = lsl, !.usl = usl,
                          !.current_tolerance = current_tolerance,
                          !.current_gage_rr = current_gage_rr,
                          !.current_cp = current_cp,
                          !.current_cpk = PyMin(current_cpk_lower, current_cpk_upper)]

\* One scenario dictionary (lines 130-138, 144-152, 158-166, 172-180).
Scenario(name, tolerance, cp, gage_rr, mean) ==
    [name |-> name, tolerance |-> tolerance, cp |-> cp, cpk |-> cp,
     gage_rr |-> gage_rr,
     lsl |-> FSub(mean, FDiv(tolerance, FInt(2))),
     usl |-> FAdd(mean, FDiv(tolerance, FInt(2)))]

NameMinimum == "Minimum Acceptable Tolerance (Cp = 1.0)"
NameGood == "Good Quality Tolerance (Cp = 1.33)"
NameHigh == "High Quality Tolerance (Cp = 1.67)"
NameExcellent == "Excellent Measurement System (Gage R&R = 10%)"

\* A list that outlives the call (a module-level or default-argument list).
KeptScenarios(f) == f.scenarios

\* Line 124: scenarios = [], a new list in every call.
NewScenarios(f) == << >>

\* Lines 124-138: the list and the scenario of Cp = 1.0.  A Gage_RR cell
\* that holds text raises here, at its first use in arithmetic.
Scenario1(f) ==
    LET min_acceptable_tolerance == FMul(FInt(6), f.std_dev)
        gage_rr_at_min == FDiv(FMul(f.current_gage_rr, f.current_tolerance),
                               min_acceptable_tolerance)
    IN  IF f.current_gage_rr = Text
        THEN [f EXCEPT !.exc = TypeError, !.scenarios = NewScenarios(f)]
        ELSE [f EXCEPT !.scenarios = Append(NewScenarios(f),
                  Scenario(NameMinimum, min_acceptable_tolerance, Lit(1, 1),
                           gage_rr_at_min, f.mean))]

\* Lines 141-152: the scenario of Cp = 1.33.
Scenario2(f) ==
    LET good_tolerance == FMul(FMul(FInt(6), f.std_dev), Lit(133, 100))
        gage_rr_at_good == FDiv(FMul(f.current_gage_rr, f.current_tolerance),
                                good_tolerance)
    IN  [f EXCEPT !.scenarios = Append(@,
            Scenario(NameGood, good_tolerance, Lit(133, 100), gage_rr_at_good, f.mean))]

\* The scenario of Cp = 1.67 with the Gage R&R of the scenario before it.
Scenario3GoodGage(f) ==
    LET high_tolerance == FMul(FMul(FInt(6), f.std_dev), Lit(167, 100))
    IN  [f EXCEPT !.scenarios = Append(@,
            Scenario(NameHigh, high_tolerance, Lit(167, 100), @[2].gage_rr, f.mean))]

\* Lines 155-166: the scenario of Cp = 1.67.
Scenario3(f) ==
    LET high_tolerance == FMul(FMul(FInt(6), f.std_dev), Lit(167, 100))
        gage_rr_at_high == FDiv(FMul(f.current_gage_rr, f.current_tolerance),
                                high_tolerance)
    IN  [f EXCEPT !.scenarios = Append(@,
            Scenario(NameHigh, high_tolerance, Lit(167, 100), gage_rr_at_high, f.mean))]

\* Lines 169-180: the scenario of Gage R&R = 10%.
Scenario4(f) ==
    LET excellent_gage_tolerance ==
            FDiv(FMul(f.current_gage_rr, f.current_tolerance), FInt(10))
        cp_at_excellent == FDiv(excellent_gage_tolerance, FMul(FInt(6), f.std_dev))
    IN  [f EXCEPT !.scenarios = Append(@,
            Scenario(NameExcellent, excellent_gage_tolerance, cp_at_excellent,
                     Lit(10, 1), f.mean))]

\* Lines 184-187: every scenario gets score = cp - gage_rr / 100.
ScoreOf(s) == FSub(s.cp, FDiv(s.gage_rr, FInt(100)))
Scored(f) ==
    [f EXCEPT !.scenarios =
        [i \in 1..Len(@) |-> [score |-> ScoreOf(@[i])] @@ @[i]]]

\* The scenario of the highest score (lines 189-190, commented out in the
\* source, then scenarios[0]).
BestScenarioByScore(f) ==
    f.scenarios[CHOOSE i \in 1..Len(f.scenarios) :
                    \A j \in 1..Len(f.scenarios) :
                        ~FGt(f.scenarios[j].score, f.scenarios[i].score)]

\* Line 193: best_scenario = scenarios[1], the second of the list.
BestScenario(f) == f.scenarios[2]

\* Lines 196-209: the recommendation.
SuccessResult(f) ==
    LET best_scenario == BestScenario(f)
    IN  [best_tolerance |-> best_scenario.tolerance,
         new_lsl |-> best_scenario.lsl,
         new_usl |-> best_scenario.usl,
         resulting_cp |-> best_scenario.cp,
         resulting_cpk |-> best_scenario.cpk,
         resulting_gage_rr |-> best_scenario.gage_rr,
         current_cp |-> f.current_cp,
         current_cpk |-> f.current_cpk,
         current_gage_rr |-> f.current_gage_rr,
         all_scenarios |-> f.scenarios,
         recommended_scenario |-> best_scenario.name,
         success |-> TRUE]

\* Lines 98-102: the result for a table of no rows.
EmptyResult ==
    [best_tolerance |-> None, message |-> "No data available for prediction",
     success |-> FALSE]

\* Lines 211-216: the result for an exception caught by the try.
ExceptResult(f) ==
    [best_tolerance |-> None, message |-> f.exc.msg, success |-> FALSE]

\* The whole function on one table, run alone: the composition of its steps.
Predict_Best_Tolerance_based_on_Material(df) ==
    IF DfLen(df) = 0 THEN EmptyResult
    ELSE LET f1 == Statistics(EmptyFrame, df)
             f2 == Scenario1(f1)
         IN  IF f1.exc # NoExc THEN ExceptResult(f1)
             ELSE IF f2.exc # NoExc THEN ExceptResult(f2)
             ELSE SuccessResult(Scored(Scenario4(Scenario3(Scenario2(f2)))))

(***************************************************************************)
(* The input domains.                                                      *)
(***************************************************************************)
MeasVals == {FInt(9), FInt(10), FInt(12)}
LimitVals == {<<FInt(8), FInt(12)>>, <<FInt(9), FInt(14)>>}
GageVals == {FInt(15), FInt(7)}

\* The rows the calculator is given: one category, varying numbers.
CalcRows ==
    {[MachineId |-> "M1", MaterialDesc |-> "A", DimensionDesc |-> "D1",
      MeasValue |-> v, LSL |-> l[1], USL |-> l[2], Gage_RR |-> g] :
        v \in MeasVals, l \in LimitVals, g \in GageVals}

SeqsUpTo(S, n) == UNION {[1..k -> S] : k \in 0..n}

\* The column layouts: every column present and numeric; and the malformed
\* ones: one numeric column missing, one numeric column holding text, or no
\* column at all.
GoodLayout == [cols |-> AllCols, text |-> {}]
BadLayouts ==
    {[cols |-> {}, text |-> {}]}
    \cup {[cols |-> AllCols \ {c}, text |-> {}] : c \in NumericCols}
    \cup {[cols |-> AllCols, text |-> {c}] : c \in NumericCols}

Table(layout, rows) == [cols |-> layout.cols, text |-> layout.text, rows |-> rows]

\* The rows of the malformed tables.
FewRows == {r \in CalcRows : r.MeasValue # FInt(12) /\ r.LSL = FInt(8)
                               /\ r.Gage_RR = FInt(15)}

CalcTables ==
    {Table(GoodLayout, r) : r \in SeqsUpTo(CalcRows, MaxRows)}
    \cup {Table(l, r) : l \in BadLayouts, r \in SeqsUpTo(FewRows, MaxRows)}

NoTable == Table([cols |-> {}, text |-> {}], << >>)

(***************************************************************************)
(* The state: the tables of the environment, and per caller the position   *)
(* in the calculator, the table it was called with, its locals and the     *)
(* result it last returned; log records the first MaxCalls returns, each   *)
(* with its table and its result.                                          *)
(***************************************************************************)
Callers == {1, 2}
Slots == {1, 2}
NoResult == [pending |-> TRUE]

\* flt is a call of filter_data_multi followed by a second call on its
\* result; main is one pass of the dashboard's script.
VARIABLES tables, pc, arg, frame, result, log, flt, main

calcVars == <<tables, pc, arg, frame, result, log>>
vars == <<tables, pc, arg, frame, result, log, flt, main>>

\* The call of c on table t returns r.
Returns(c, t, r) ==
    /\ result' = [result EXCEPT ![c] = r]
    /\ log' = IF Len(log) < MaxCalls THEN Append(log, [t |-> t, r |-> r]) ELSE log
    /\ pc' = [pc EXCEPT ![c] = "done"]

\* The call without the early return of lines 97-102.
EnterUnchecked(c, t) ==
    /\ pc[c] \in {"idle", "done", "raised"}
    /\ arg' = [arg EXCEPT ![c] = t]
    /\ pc' = [pc EXCEPT ![c] = "try"]
    /\ UNCHANGED <<tables, frame, result, log, flt, main>>

\* Lines 85-102: the call, and the early return for a table of no rows.
Enter(c, t) ==
    /\ pc[c] \in {"idle", "done", "raised"}
    /\ arg' = [arg EXCEPT ![c] = t]
    /\ IF DfLen(tables[t]) = 0
       THEN Returns(c, t, EmptyResult)
       ELSE /\ pc' = [pc EXCEPT ![c] = "try"]
            /\ UNCHANGED <<result, log>>
    /\ UNCHANGED <<tables, frame, flt, main>>

\* except KeyError, in place of except Exception.
CaughtKeyError(exc) == exc.type = "KeyError"

\* Line 211, except Exception: the classes of exception the clause catches.
Caught(exc) == exc.type \in {"KeyError", "TypeError", "IndexError", "ValueError"}

\* One step inside the try: the frame after it, and on to the next position;
\* when the step raised, to the except clause if that catches the exception,
\* and out of the function ("raised") if not.
TryStep(c, from, to, f) ==
    /\ pc[c] = from
    /\ frame' = [frame EXCEPT ![c] = f]
    /\ pc' = [pc EXCEPT ![c] = IF f.exc = NoExc THEN to
                               ELSE IF Caught(f.exc) THEN "except" ELSE "raised"]
    /\ UNCHANGED <<tables, arg, result, log, flt, main>>

\* The statistics step with the last row dropped from the caller's table in
\* place (df.drop(df.index[-1], inplace=True)).
StatisticsStepDropsRow(c) ==
    /\ pc[c] = "try"
    /\ LET f == Statistics([frame[c] EXCEPT !.exc = NoExc], tables[arg[c]])
       IN  /\ frame' = [frame EXCEPT ![c] = f]
           /\ pc' = [pc EXCEPT ![c] = IF f.exc = NoExc THEN "scenario1" ELSE "except"]
    /\ tables' = [tables EXCEPT ![arg[c]].rows = SubSeq(@, 1, Len(@) - 1)]
    /\ UNCHANGED <<arg, result, log, flt, main>>

StatisticsStep(c) ==
    TryStep(c, "try", "scenario1",
            Statistics([frame[c] EXCEPT !.exc = NoExc], tables[arg[c]]))
Scenario1Step(c) == TryStep(c, "scenario1", "scenario2", Scenario1(frame[c]))
Scenario2Step(c) == TryStep(c, "scenario2", "scenario3", Scenario2(frame[c]))
Scenario3Step(c) == TryStep(c, "scenario3", "scenario4", Scenario3(frame[c]))
Scenario4Step(c) == TryStep(c, "scenario4", "score", Scenario4(frame[c]))
ScoreStep(c) == TryStep(c, "score", "return", Scored(frame[c]))

\* Lines 193-209.
ReturnStep(c) ==
    /\ pc[c] = "return"
    /\ Returns(c, arg[c], SuccessResult(frame[c]))
    /\ UNCHANGED <<tables, arg, frame, flt, main>>

\* Lines 211-216.
ExceptStep(c) ==
    /\ pc[c] = "except"
    /\ Returns(c, arg[c], ExceptResult(frame[c]))
    /\ UNCHANGED <<tables, arg, frame, flt, main>>

\* One step of caller c, whose calls are on the tables ts.
Step(c, ts) ==
    \/ \E t \in ts : Enter(c, t)
    \/ StatisticsStep(c)
    \/ Scenario1Step(c)
    \/ Scenario2Step(c)
    \/ Scenario3Step(c)
    \/ Scenario4Step(c)
    \/ ScoreStep(c)
    \/ ReturnStep(c)
    \/ ExceptStep(c)

NoFilter == [pc |-> "idle"]
NoMain == [pc |-> "idle"]

\* No call of the calculator yet.
IdleCallers ==
    /\ pc = [c \in Callers |-> "idle"]
    /\ arg = [c \in Callers |-> 1]
    /\ frame = [c \in Callers |-> EmptyFrame]
    /\ result = [c \in Callers |-> NoResult]
    /\ log = << >>

InitCalc ==
    /\ flt = NoFilter
    /\ main = NoMain
    /\ IdleCallers

\* One caller, calling the calculator again and again on a table of the
\* whole input domain.
Init ==
    /\ tables \in {[t \in Slots |-> IF t = 1 THEN x ELSE NoTable] : x \in CalcTables}
    /\ InitCalc

Next == Step(1, {1})

Spec == Init /\ [][Next]_vars

\* Two callers (threads), their calls interleaved step by step, on two of a
\* few tables: one of no rows, one of two rows, and one whose Gage_RR column
\* holds text.
ConcRow(v) ==
    [MachineId |-> "M1", MaterialDesc |-> "A", DimensionDesc |-> "D1",
     MeasValue |-> v, LSL |-> FInt(8), USL |-> FInt(12), Gage_RR |-> FInt(7)]
ConcTables ==
    {Table(GoodLayout, << >>),
     Table(GoodLayout, <<ConcRow(FInt(12)), ConcRow(FInt(10))>>),
     Table([cols |-> AllCols, text |-> {"Gage_RR"}], <<ConcRow(FInt(9)), ConcRow(FInt(10))>>)}

InitConc ==
    /\ tables \in [Slots -> ConcTables]
    /\ InitCalc

NextConc == \E c \in Callers : Step(c, Slots)

SpecConc == InitConc /\ [][NextConc]_vars

\* What the function returns for each of these tables when run alone.
RunAlone == [df \in ConcTables |-> Predict_Best_Tolerance_based_on_Material(df)]

(***************************************************************************)
(* filter_data_multi on the tables and the dictionaries of a bounded       *)
(* domain: a call, then a second call on the result of the first.          *)
(***************************************************************************)
Machines == {"M1", "M2"}
Materials == {"A", "B"}
Dimensions == {"D1", "D2"}

\* The rows of the dashboard's tables: the categories vary, the numbers
\* follow the machine.
MainRow(mach, mat, dim) ==
    [MachineId |-> mach, MaterialDesc |-> mat, DimensionDesc |-> dim,
     MeasValue |-> IF mach = "M1" THEN FInt(10) ELSE FInt(12),
     LSL |-> FInt(8), USL |-> FInt(12), Gage_RR |-> FInt(7)]
MainRows ==
    {MainRow("M1", "A", "D1"), MainRow("M1", "B", "D2"),
     MainRow("M2", "A", "D2"), MainRow("M2", "B", "D1")}

FilterTables ==
    {Table(l, r) : l \in {GoodLayout, [cols |-> AllCols \ {"MaterialDesc"}, text |-> {}]},
                   r \in SeqsUpTo(MainRows, MaxRows)}
FilterDicts ==
    {<<<<"MachineId", a>>, <<"MaterialDesc", b>>, <<"DimensionDesc", d>>>> :
        a \in SUBSET Machines, b \in SUBSET Materials, d \in SUBSET {"D1"}}

\* Lines 37-54, called on flt.df with flt.filters_dict; the call leaves its
\* arguments as they are.
FilterCall ==
    /\ flt.pc = "start"
    /\ flt' = IF FilterRaises(flt.df, flt.filters_dict)
              THEN [flt EXCEPT !.pc = "raised"]
              ELSE [flt EXCEPT !.pc = "filtered",
                               !.filtered_df = filter_data_multi(flt.df, flt.filters_dict)]
    /\ UNCHANGED <<calcVars, main>>

\* The same dictionary applied to the result.
FilterAgain ==
    /\ flt.pc = "filtered"
    /\ flt' = [flt EXCEPT !.pc = "refiltered",
                          !.again = filter_data_multi(flt.filtered_df, flt.filters_dict)]
    /\ UNCHANGED <<calcVars, main>>

InitFilter ==
    /\ flt \in {[pc |-> "start", df |-> d, filters_dict |-> f, filtered_df |-> NoTable,
                 again |-> NoTable] : d \in FilterTables, f \in FilterDicts}
    /\ main = NoMain
    /\ tables = [t \in Slots |-> NoTable]
    /\ IdleCallers

NextFilter == FilterCall \/ FilterAgain

SpecFilter == InitFilter /\ [][NextFilter]_vars

(***************************************************************************)
(* main: one pass of the dashboard's script over the loaded table, from    *)
(* the three filters to the forecast.  A pass ends "done", or "crashed"    *)
(* with the exception that left main.                                      *)
(***************************************************************************)
\* What the number input can return besides its default: any float >= 0.0.
ToleranceInputs == {Zero, FInt(3)}

MainTables ==
    {Table(l, r) : l \in {GoodLayout, [cols |-> AllCols \ OptionalCols, text |-> {}],
                          [cols |-> AllCols \ {"MeasValue"}, text |-> {}]},
                   r \in SeqsUpTo(MainRows, MaxRows)}

\* Lines 79-89: the state before the first widget.
StartOfPass(df) ==
    [pc |-> "machine", df |-> df, filters |-> << >>, filtered_df |-> df,
     Tolerance |-> None, value |-> None, std_dev |-> None,
     optimal_result |-> NoResult, result_df |-> None, Forecast_GRR |-> None,
     exc |-> NoExc]

Crash(m, type, msg) == [m EXCEPT !.pc = "crashed", !.exc = Exc(type, msg)]

\* One filter column of lines 104-137: the multiselect offers the values of
\* column in m.filtered_df and returns the subset sel of them; the selection
\* goes into the dictionary and df is filtered by all of it.
FilterColumn(m, column, sel, next) ==
    IF column \notin m.filtered_df.cols
    THEN Crash(m, "KeyError", column)
    ELSE LET filters == DictSet(m.filters, column, sel)
         IN  [m EXCEPT !.pc = next, !.filters = filters,
                       !.filtered_df = filter_data_multi(m.df, filters)]

MachineStep ==
    /\ main.pc = "machine"
    /\ \E sel \in SUBSET Options(main.filtered_df, "MachineId") :
          main' = FilterColumn(main, "MachineId", sel, "material")
    /\ UNCHANGED <<calcVars, flt>>

\* Lines 116-125 with the multiselect offered the values of the whole table
\* df instead of those of filtered_df.
MaterialStepWholeTable ==
    /\ main.pc = "material"
    /\ \E sel \in SUBSET Options(main.df, "MaterialDesc") :
          main' = FilterColumn(main, "MaterialDesc", sel, "dimension")
    /\ UNCHANGED <<calcVars, flt>>

\* Lines 116-125: the material options come from the table filtered by the
\* machine selection.
MaterialStep ==
    /\ main.pc = "material"
    /\ \E sel \in SUBSET Options(main.filtered_df, "MaterialDesc") :
          main' = FilterColumn(main, "MaterialDesc", sel, "dimension")
    /\ UNCHANGED <<calcVars, flt>>

DimensionStep ==
    /\ main.pc = "dimension"
    /\ \E sel \in SUBSET Options(main.filtered_df, "DimensionDesc") :
          main' = FilterColumn(main, "DimensionDesc", sel, "tolerance")
    /\ UNCHANGED <<calcVars, flt>>

\* Lines 154-157: the first USL and LSL of the filtered table, their
\* difference, and the number input (default Tolerance, min_value 0.0;
\* Streamlit refuses a default below the minimum).
ToleranceStep ==
    /\ main.pc = "tolerance"
    /\ LET fd == main.filtered_df
           Tol == FSub(Unique0(fd, "USL"), Unique0(fd, "LSL"))
       IN  \E v \in ToleranceInputs \cup {IF DfLen(fd) > 0 THEN Tol ELSE Zero} :
             main' = IF "USL" \notin fd.cols THEN Crash(main, "KeyError", "USL")
                     ELSE IF DfLen(fd) = 0
                     THEN Crash(main, "IndexError",
                                "index 0 is out of bounds for axis 0 with size 0")
                     ELSE IF "LSL" \notin fd.cols THEN Crash(main, "KeyError", "LSL")
                     ELSE IF FLt(Tol, Zero)
                     THEN Crash(main, "StreamlitAPIException", "value below min_value")
                     ELSE [main EXCEPT !.pc = "left", !.Tolerance = Tol, !.value = v]
    /\ UNCHANGED <<calcVars, flt>>

\* Lines 162-237: the actual measurements and the suggested ones.  The
\* format of line 176 (and 177), {cp if isinstance(cp, str) else cp:.4f},
\* applies .4f to "N/A" when the table has no Cp (Cpk) column: ValueError.
LeftStep ==
    /\ main.pc = "left"
    /\ LET fd == main.filtered_df
           m1 == [main EXCEPT !.std_dev = SeriesStd(fd, "MeasValue")]
       IN  main' =
             IF "MeasValue" \notin fd.cols THEN [main EXCEPT !.pc = "right"]
             ELSE IF "Cp" \notin fd.cols \/ "Cpk" \notin fd.cols
             THEN Crash(m1, "ValueError", "Unknown format code 'f' for object of type 'str'")
             ELSE IF "Gage_RR" \notin fd.cols THEN Crash(m1, "KeyError", "Gage_RR")
             ELSE [m1 EXCEPT !.pc = "right",
                    !.optimal_result = Predict_Best_Tolerance_based_on_Material(fd)]
    /\ UNCHANGED <<calcVars, flt>>

\* Python's float division: a zero divisor raises ZeroDivisionError.
ZeroDivision == [k |-> "ZeroDivisionError", m |-> 0, e |-> 0]
PyFloatDivide(x, y) == IF IsZero(y) THEN ZeroDivision ELSE FDiv(x, y)

\* Lines 241 and 253: the divisions of the forecast.  One operand of each
\* is a numpy.float64 (6 * std_dev, gage_rr_value * Tolerance), so numpy
\* divides.
TrueDivide(x, y) == FDiv(x, y)

\* Lines 239-260: the forecast.  std_dev is unbound when the table has no
\* MeasValue column (line 165): NameError.
RightStep ==
    /\ main.pc = "right"
    /\ LET fd == main.filtered_df
           result_df == TrueDivide(main.value, FMul(FInt(6), main.std_dev))
           gage_rr_value == Unique0(fd, "Gage_RR")
           Forecast_GRR == TrueDivide(FMul(gage_rr_value, main.Tolerance), main.value)
       IN  main' =
             IF main.std_dev = None THEN Crash(main, "NameError", "std_dev")
             ELSE IF result_df = ZeroDivision
             THEN Crash(main, "ZeroDivisionError", "float division by zero")
             ELSE IF "Gage_RR" \notin fd.cols
             THEN Crash([main EXCEPT !.result_df = result_df], "KeyError", "Gage_RR")
             ELSE IF Forecast_GRR = ZeroDivision
             THEN Crash([main EXCEPT !.result_df = result_df],
                        "ZeroDivisionError", "float division by zero")
             ELSE [main EXCEPT !.pc = "done", !.result_df = result_df,
                               !.Forecast_GRR = Forecast_GRR]
    /\ UNCHANGED <<calcVars, flt>>

\* The next interaction runs the script again, from the top.
Rerun ==
    /\ main.pc \in {"done", "crashed"}
    /\ main' = StartOfPass(main.df)
    /\ UNCHANGED <<calcVars, flt>>

InitMain ==
    /\ main \in {StartOfPass(d) : d \in MainTables}
    /\ flt = NoFilter
    /\ tables = [t \in Slots |-> NoTable]
    /\ IdleCallers

NextMain ==
    \/ MachineStep
    \/ MaterialStep
    \/ DimensionStep
    \/ ToleranceStep
    \/ LeftStep
    \/ RightStep
    \/ Rerun

SpecMain == InitMain /\ [][NextMain]_vars

(***************************************************************************)
(* The claims.                                                             *)
(***************************************************************************)
\* A call that has returned, and the table it was given.
Done(c) == pc[c] = "done"
Input(c) == tables[arg[c]]
\* The sample standard deviation and the mean of MeasValue, per table.
StdDevOf == [df \in CalcTables |-> SeriesStd(df, "MeasValue")]
MeanOf == [df \in CalcTables |-> SeriesMean(df, "MeasValue")]
\* The table has the four numeric columns, and numbers in them.
WellFormed(df) == NumericCols \subseteq df.cols /\ df.text = {}
NonFinite(x) == IsInf(x) \/ IsNaN(x)

\* C1: a call on a table of no rows returns exactly the failure "No data
\* available for prediction" (its best_tolerance None), whatever columns the
\* table has or lacks.
C1_EmptyTable ==
    \A c \in Callers :
        (Done(c) /\ DfLen(Input(c)) = 0) =>
            /\ DOMAIN result[c] = {"best_tolerance", "message", "success"}
            /\ result[c].success = FALSE
            /\ result[c].message = "No data available for prediction"
            /\ result[c].best_tolerance = None

C1_Witness ==
    \E c \in Callers :
        /\ Done(c) /\ DfLen(Input(c)) = 0
        /\ ~WellFormed(Input(c))
        /\ result[c].success = FALSE

\* C2: on a non-empty table no exception leaves the function: a call never
\* ends raised, and a call whose try block raised returns a failure that
\* carries the exception's message.
C2_ExceptionsCaught ==
    \A c \in Callers :
        /\ pc[c] # "raised"
        /\ (Done(c) /\ DfLen(Input(c)) > 0 /\ ~WellFormed(Input(c))) =>
              /\ result[c].success = FALSE
              /\ result[c].message = frame[c].exc.msg
              /\ result[c].message # ""
              /\ frame[c].exc # NoExc

C2_Witness ==
    \E c \in Callers :
        /\ Done(c) /\ DfLen(Input(c)) > 0
        /\ "Gage_RR" \in Input(c).text
        /\ result[c].success = FALSE
        /\ frame[c].exc.type = "TypeError"

C4_CurrentCapability ==
    \A c \in Callers :
        (Done(c) /\ WellFormed(Input(c)) /\ DfLen(Input(c)) > 0
                 /\ FGt(StdDevOf[Input(c)], Zero)) =>
            LET df == Input(c)
                sd == StdDevOf[df]
                mu == MeanOf[df]
                LSL == df.rows[1].LSL
                USL == df.rows[1].USL
                lower == FDiv(FSub(mu, LSL), FMul(FInt(3), sd))
                upper == FDiv(FSub(USL, mu), FMul(FInt(3), sd))
            IN  /\ result[c].success
                /\ FEq(result[c].current_cp, FDiv(FSub(USL, LSL), FMul(FInt(6), sd)))
                /\ FEq(result[c].current_cpk, IF FLt(lower, upper) THEN lower ELSE upper)

\* A call on a table whose rows differ in LSL and USL, with stdDev > 0 and
\* an off-centre mean.
C4_Witness ==
    \E c \in Callers :
        /\ Done(c) /\ WellFormed(Input(c)) /\ DfLen(Input(c)) > 1
        /\ FGt(StdDevOf[Input(c)], Zero)
        /\ Input(c).rows[1].LSL # Input(c).rows[2].LSL
        /\ result[c].success
        /\ FLt(result[c].current_cpk, result[c].current_cp)

\* C5: with a standard deviation of 0 the call succeeds, current_cp and
\* current_cpk are +infinity, and the divisions by the zero tolerance come
\* out infinite or not-a-number.
C5_ZeroStdDev ==
    \A c \in Callers :
        (Done(c) /\ WellFormed(Input(c)) /\ DfLen(Input(c)) > 0
                 /\ StdDevOf[Input(c)] = Zero) =>
            /\ result[c].success
            /\ result[c].current_cp = PosInf
            /\ result[c].current_cpk = PosInf
            /\ \A i \in 1..3 : /\ result[c].all_scenarios[i].tolerance = Zero
                               /\ NonFinite(result[c].all_scenarios[i].gage_rr)
            /\ NonFinite(result[c].all_scenarios[4].cp)

C5_Witness ==
    \E c \in Callers :
        /\ Done(c) /\ WellFormed(Input(c)) /\ DfLen(Input(c)) > 1
        /\ StdDevOf[Input(c)] = Zero
        /\ result[c].success
        /\ result[c].all_scenarios[1].gage_rr = PosInf

\* |x - y| <= k * 2^-SigBits * |y|, in exact arithmetic on finite x and y.
WithinUlps(x, y, k) ==
    LET lo == IF x.e < y.e THEN x.e ELSE y.e
    IN  Abs(x.m * Pow2(x.e - lo) - y.m * Pow2(y.e - lo)) * Pow2(SigBits)
            <= k * Abs(y.m) * Pow2(y.e - lo)

\* C6 as stated: in a successful result with stdDev > 0 the scenarios
\* Minimum, Good and High have gage_rr * tolerance == current_gage_rr *
\* current_tolerance.
C6_ProductExact ==
    \A c \in Callers :
        (Done(c) /\ result[c].success /\ FGt(frame[c].std_dev, Zero)) =>
            \A i \in 1..3 :
                FEq(FMul(result[c].all_scenarios[i].gage_rr,
                         result[c].all_scenarios[i].tolerance),
                    FMul(frame[c].current_gage_rr, frame[c].current_tolerance))

\* C6 amended: in a successful result with stdDev > 0 the tolerances of
\* Minimum, Good and High are 6 * stdDev, 6 * stdDev * 1.33 and
\* 6 * stdDev * 1.67; their gage_rr is the floating point quotient
\* (current_gage_rr * current_tolerance) / tolerance, so that gage_rr *
\* tolerance equals current_gage_rr * current_tolerance to within rounding
\* (three units of roundoff), not exactly; Excellent has gage_rr 10 and
\* tolerance current_gage_rr * current_tolerance / 10.
C6_ProductWithinRounding ==
    \A c \in Callers :
        (Done(c) /\ result[c].success /\ FGt(frame[c].std_dev, Zero)) =>
            LET df == Input(c)
                sc == result[c].all_scenarios
                six == FMul(FInt(6), StdDevOf[df])
                prod == FMul(df.rows[1].Gage_RR,
                             FSub(df.rows[1].USL, df.rows[1].LSL))
                factor == <<Lit(1, 1), Lit(133, 100), Lit(167, 100)>>
            IN  /\ \A i \in 1..3 :
                      /\ sc[i].tolerance = FMul(six, factor[i])
                      /\ sc[i].gage_rr = FDiv(prod, sc[i].tolerance)
                      /\ WithinUlps(FMul(sc[i].gage_rr, sc[i].tolerance), prod, 3)
                /\ sc[4].gage_rr = FInt(10)
                /\ sc[4].tolerance = FDiv(prod, FInt(10))
                /\ WithinUlps(FMul(sc[4].gage_rr, sc[4].tolerance), prod, 3)

\* A successful result with stdDev > 0 in which the product of a scenario
\* is not the current product.
C6_Witness ==
    \E c \in Callers :
        /\ Done(c) /\ result[c].success /\ FGt(frame[c].std_dev, Zero)
        /\ \E i \in 1..3 :
              FMul(result[c].all_scenarios[i].gage_rr,
                   result[c].all_scenarios[i].tolerance)
                # FMul(frame[c].current_gage_rr, frame[c].current_tolerance)

\* C7: any two calls on the same table return identical results, whatever
\* calls on other tables ran between or during them.
C7_Idempotent ==
    \A i, j \in 1..Len(log) : log[i].t = log[j].t => log[i].r = log[j].r

\* Two successful calls on one table with a call on a different table
\* returning between them.
C7_Witness ==
    /\ Len(log) >= 3
    /\ log[1].t = log[3].t /\ log[2].t # log[1].t
    /\ tables[1] # tables[2]
    /\ log[1].r.success /\ log[2].r # log[1].r /\ log[3].r = log[1].r

\* C8: no step of the calculator changes a table, and every call, however
\* interleaved with calls on other tables, returns what the function
\* returns for its table when run alone.
C8_NoSideEffects ==
    [][/\ tables' = tables
       /\ \A c \in Callers :
             (pc'[c] = "done" /\ pc[c] # "done") =>
                 result'[c] = RunAlone[tables[arg'[c]]]]_vars

\* Both callers inside the call at once, on different tables, one among
\* the scenarios and the other before its statistics or in its handler,
\* after an earlier call has returned.
C8_Witness ==
    /\ pc[1] \in {"scenario2", "scenario3", "scenario4", "score", "return"}
    /\ pc[2] \in {"try", "except"}
    /\ arg[1] # arg[2] /\ tables[1] # tables[2]
    /\ Len(log) > 0

\* The rows of df that pass every filter of filters_dict that has values.
Matching(df, filters_dict) ==
    SelectSeq(df.rows,
              LAMBDA r : \A i \in 1..Len(filters_dict) :
                            filters_dict[i][2] = {} \/ r[filters_dict[i][1]] \in filters_dict[i][2])

\* C9: filter_data_multi returns the rows, in their order, that match every
\* column with a non-empty list, all the rows when every list is empty; it
\* leaves its input as it was; and the same filters applied to the result
\* return the same rows.
C9_FilterMulti ==
    [][/\ (flt.pc = "start" /\ flt'.pc = "filtered") =>
            /\ flt'.df = flt.df /\ flt'.filters_dict = flt.filters_dict
            /\ flt'.filtered_df.rows = Matching(flt.df, flt.filters_dict)
            /\ flt'.filtered_df.cols = flt.df.cols
            /\ ((\A i \in 1..Len(flt.filters_dict) : flt.filters_dict[i][2] = {})
                    => flt'.filtered_df.rows = flt.df.rows)
       /\ (flt.pc = "filtered" /\ flt'.pc = "refiltered") =>
            /\ flt'.again.rows = flt.filtered_df.rows
            /\ flt'.filtered_df = flt.filtered_df /\ flt'.df = flt.df]_vars

\* A filter of two columns, one list empty, that keeps some rows of a table
\* and drops others, applied twice.
C9_Witness ==
    /\ flt.pc = "refiltered"
    /\ flt.filters_dict[1][2] # {} /\ flt.filters_dict[2][2] = {}
    /\ 0 < DfLen(flt.filtered_df) /\ DfLen(flt.filtered_df) < DfLen(flt.df)
    /\ flt.again = flt.filtered_df

\* C10: a pass that computes the forecast ends with forecastCp = T / (6 *
\* stdDev) and forecastGageRR = currentGageRR * currentTolerance / T for the
\* T of the number input; no division of the forecast raises; with T = 0 the
\* forecast Gage R&R is +infinity or NaN and the pass ends done.
C10_Forecast ==
    /\ main.pc = "crashed" => main.exc.type # "ZeroDivisionError"
    /\ main.pc = "done" =>
          LET fd == main.filtered_df
              T == main.value
              currentTolerance == FSub(fd.rows[1].USL, fd.rows[1].LSL)
          IN  /\ T \in ToleranceInputs \cup {currentTolerance}
              /\ main.result_df = FDiv(T, FMul(FInt(6), SeriesStd(fd, "MeasValue")))
              /\ main.Forecast_GRR = FDiv(FMul(fd.rows[1].Gage_RR, currentTolerance), T)
              /\ T = Zero => /\ main.Forecast_GRR \in {PosInf, NaN}
                             /\ main.result_df \in {Zero, NaN}

\* A pass done with T = 0: an infinite forecast Gage R&R.
C10_Witness ==
    /\ main.pc = "done"
    /\ main.value = Zero
    /\ main.Forecast_GRR = PosInf
    /\ main.result_df \in {Zero, NaN}

\* C11: in a pass of main over a loaded table that has rows, with every
\* multiselect returning a subset of the options it offered, the table is
\* non-empty after each of the three filter steps; so no read of
\* unique()[0] fails with an index error and the calculator never gets an
\* empty table (it never answers "No data available for prediction").
C11_FilterChainNonEmpty ==
    DfLen(main.df) > 0 =>
        /\ main.pc \in {"material", "dimension", "tolerance", "left", "right", "done"} =>
              DfLen(main.filtered_df) > 0
        /\ main.pc = "crashed" => main.exc.type # "IndexError"
        /\ main.optimal_result # EmptyResult

\* A pass in which all three multiselects have a selection, the filters
\* have removed rows, and the calculator has been called on what is left.
C11_Witness ==
    /\ main.pc = "done"
    /\ Len(main.filters) = 3
    /\ \A i \in 1..3 : main.filters[i][2] # {}
    /\ 0 < DfLen(main.filtered_df) /\ DfLen(main.filtered_df) < DfLen(main.df)
    /\ main.optimal_result # NoResult

====
